---- MODULE Spec2Model ----
(***************************************************************************)
(* Model of controller/controller.go (package controller of nodekit-seq):  *)
(* the Controller that the hypersdk VM drives through Initialize,          *)
(* Accepted, Rejected and Shutdown.                                        *)
(*                                                                         *)
(* Accepted is modelled statement by statement (pc), because its error     *)
(* paths leave the loop in the middle: NewBatch, then per transaction the  *)
(* StoreTransaction call and the metrics switch, then batch.Write, then    *)
(* the deferred batch.Reset.  The host calls the Controller one call at a  *)
(* time, so the other handlers run only between two Accepted calls.        *)
(***************************************************************************)
EXTENDS Integers, Sequences, FiniteSets, TLC

\* ------------------------------------------------------------------ bounds

\* Transaction identifiers the host can deliver are 1..MaxId.
MaxId == 3
\* A block carries at most MaxTxs transactions.
MaxTxs == 2
\* Block timestamps are 1..MaxTs.
MaxTs == 2
\* The host delivers at most MaxCalls blocks to Accepted.
MaxCalls == 2
\* The host writes at most MaxHostPuts keys to the stores handed to it.
MaxHostPuts == 1

\* ------------------------------------------------------------ action kinds

\* The action types the metrics switch of Accepted names (one counter each).
Kinds ==
  {"CreateAsset", "MintAsset", "BurnAsset", "ModifyAsset",
   "Transfer", "SequencerMsg", "ImportAsset", "ExportAsset"}

\* tx.Action of the transaction with identifier id.  The identifier is the
\* hash of the transaction, so it fixes the action; the first identifiers
\* cover a transfer, a mint and an action the switch has no case for
\* ("Other").
ActionCycle ==
  <<"Transfer", "MintAsset", "Other", "CreateAsset", "BurnAsset",
    "ModifyAsset", "SequencerMsg", "ImportAsset", "ExportAsset">>

ActionOf(id) == ActionCycle[((id - 1) % Len(ActionCycle)) + 1]

TxIds == 1..MaxId

\* result.Units of an execution result.
UnitValues == {0, 5}

\* chain.Result, as far as Accepted reads it.
Results == [Success : BOOLEAN, Units : UnitValues]

\* chain.StatelessBlock, as far as Accepted reads it: Txs, Results() (one
\* result per transaction) and GetTimestamp().
Blocks ==
  UNION {[Txs : [1..k -> TxIds], Results : [1..k -> Results], Tmstmp : 1..MaxTs] :
           k \in 0..MaxTxs}

\* The blocks whose transactions range over every action type of ActionCycle,
\* all at one timestamp.
KindBlocks ==
  UNION {[Txs : [1..k -> 1..Len(ActionCycle)], Results : [1..k -> Results],
          Tmstmp : {1}] : k \in 0..MaxTxs}

NoBlock == [Txs |-> <<>>, Results |-> <<>>, Tmstmp |-> 0]

\* ------------------------------------------------------------ configuration

\* The tunables Initialize copies from the configuration into the strategies.
ProposerFields ==
  {"GossipInterval", "GossipMaxSize", "GossipProposerDiff",
   "GossipProposerDepth", "BuildProposerDiff", "VerifyTimeout"}

\* builder.DefaultTimeConfig(): the values stand for the library's defaults;
\* every field has its own value, so that a default in the wrong field shows.
DefaultTimeConfig == [PreferredBlocksPerSecond |-> 2]

\* gossiper.DefaultProposerConfig()
DefaultProposerConfig ==
  [GossipInterval |-> 1, GossipMaxSize |-> 3, GossipProposerDiff |-> 4,
   GossipProposerDepth |-> 5, BuildProposerDiff |-> 6, VerifyTimeout |-> 7]

\* A configured value that differs from every default.
Override(d) == d + 10

\* The values a field of the parsed configuration can hold: the zero value,
\* the default, or another value.
FieldValues(d) == {0, d, Override(d)}

\* c.config after config.New returned without error, as Initialize reads it:
\* TestMode, the value GetPreferredBlocksPerSecond() returns, and the six
\* gossip fields.
AllConfigs ==
  [TestMode : BOOLEAN,
   PreferredBlocksPerSecond : FieldValues(DefaultTimeConfig.PreferredBlocksPerSecond),
   GossipInterval : FieldValues(DefaultProposerConfig.GossipInterval),
   GossipMaxSize : FieldValues(DefaultProposerConfig.GossipMaxSize),
   GossipProposerDiff : FieldValues(DefaultProposerConfig.GossipProposerDiff),
   GossipProposerDepth : FieldValues(DefaultProposerConfig.GossipProposerDepth),
   BuildProposerDiff : FieldValues(DefaultProposerConfig.BuildProposerDiff),
   VerifyTimeout : FieldValues(DefaultProposerConfig.VerifyTimeout)]

\* The configuration that holds the default of every tunable.
DefaultConfig(testMode) ==
  [TestMode |-> testMode,
   PreferredBlocksPerSecond |-> DefaultTimeConfig.PreferredBlocksPerSecond,
   GossipInterval |-> DefaultProposerConfig.GossipInterval,
   GossipMaxSize |-> DefaultProposerConfig.GossipMaxSize,
   GossipProposerDiff |-> DefaultProposerConfig.GossipProposerDiff,
   GossipProposerDepth |-> DefaultProposerConfig.GossipProposerDepth,
   BuildProposerDiff |-> DefaultProposerConfig.BuildProposerDiff,
   VerifyTimeout |-> DefaultProposerConfig.VerifyTimeout]

\* The configuration of the runs that go on to accept blocks (what Accepted
\* does never depends on it).
NodeConfigs == {DefaultConfig(FALSE)}

\* c.config before config.New: the nil pointer.
NilConfig == [nil |-> TRUE]

\* ---------------------------------------------------------------- strategies

NilStrategy == [kind |-> "nil"]

\* builder.NewManual(inner)
NewManualBuilder == [kind |-> "builder.Manual"]

\* gossiper.NewManual(inner)
NewManualGossiper == [kind |-> "gossiper.Manual"]

\* builder.NewTime(inner, bcfg)
NewTime(bcfg) == [kind |-> "builder.Time", cfg |-> bcfg]

\* gossiper.NewProposer(inner, gcfg)
NewProposer(gcfg) == [kind |-> "gossiper.Proposer", cfg |-> gcfg]

\* Mutant of SelectBuilder: test mode is honoured only when no rate is
\* configured.
SelectBuilderUnlessRate(cfg) ==
  IF cfg.TestMode /\ cfg.PreferredBlocksPerSecond = 0
    THEN NewManualBuilder
    ELSE NewTime([DefaultTimeConfig EXCEPT
                    !.PreferredBlocksPerSecond = cfg.PreferredBlocksPerSecond])

\* Mutant of SelectBuilder: the configured rate is not copied.
SelectBuilderDefault(cfg) ==
  IF cfg.TestMode THEN NewManualBuilder ELSE NewTime(DefaultTimeConfig)

\* Initialize, lines 148-164: the builder selected for configuration cfg.
SelectBuilder(cfg) ==
  IF cfg.TestMode
    THEN NewManualBuilder
    ELSE NewTime([DefaultTimeConfig EXCEPT
                    !.PreferredBlocksPerSecond = cfg.PreferredBlocksPerSecond])

\* Mutant of SelectGossiper: GossipMaxSize is not copied.
SelectGossiperKeepsMaxSize(cfg) ==
  IF cfg.TestMode
    THEN NewManualGossiper
    ELSE NewProposer([DefaultProposerConfig EXCEPT
                        !.GossipInterval = cfg.GossipInterval,
                        !.GossipProposerDiff = cfg.GossipProposerDiff,
                        !.GossipProposerDepth = cfg.GossipProposerDepth,
                        !.BuildProposerDiff = cfg.BuildProposerDiff,
                        !.VerifyTimeout = cfg.VerifyTimeout])

\* Initialize, lines 148-164: the gossiper selected for configuration cfg.
SelectGossiper(cfg) ==
  IF cfg.TestMode
    THEN NewManualGossiper
    ELSE NewProposer([DefaultProposerConfig EXCEPT
                        !.GossipInterval = cfg.GossipInterval,
                        !.GossipMaxSize = cfg.GossipMaxSize,
                        !.GossipProposerDiff = cfg.GossipProposerDiff,
                        !.GossipProposerDepth = cfg.GossipProposerDepth,
                        !.BuildProposerDiff = cfg.BuildProposerDiff,
                        !.VerifyTimeout = cfg.VerifyTimeout])

\* The steps of Initialize that can return an error, in program order.
InitSteps ==
  <<"metrics", "config", "genesis", "blockDir", "blockDB", "stateDir",
    "stateDB", "metaDir", "metaDB", "rpc">>

StepNo(step) == CHOOSE n \in 1..Len(InitSteps) : InitSteps[n] = step

\* The outcomes of one Initialize call: no error, or the step that failed.
InitOutcomes == {"nil"} \cup {InitSteps[n] : n \in 1..Len(InitSteps)}

\* Step `step` was executed successfully when Initialize ended with `outcome`.
Passed(step, outcome) == outcome = "nil" \/ StepNo(step) < StepNo(outcome)

\* ------------------------------------------------------------------ stores

Stores == {"block", "state", "metadata"}

\* The step of Initialize that opens each store (pebble.New).
OpenStep == [block |-> "blockDB", state |-> "stateDB", metadata |-> "metaDB"]

\* The sub-directory of snowCtx.ChainDataDir each store is opened at
\* (utils.InitSubDirectory, lines 101, 111 and 119).
SubDirectory == [block |-> "block", state |-> "state", metadata |-> "metadata"]

\* No store is open.
NoStores == [s \in {} |-> ""]

\* The values Initialize returns next to its error (line 167).
ReturnValues ==
  {"config", "genesis", "builder", "gossiper", "blockDB", "stateDB", "handlers",
   "actionRegistry", "authRegistry"}

\* A key-value store with nothing in it.
EmptyDB == [k \in {} |-> 0]

\* database.KeyValueWriter.Put: the value under key k becomes v.
Put(db, k, v) == (k :> v) @@ db

\* The value storage.StoreTransaction writes under the transaction identifier.
TxRecord(t, success, units) == [Timestamp |-> t, Success |-> success, Units |-> units]

\* c.metaDB.NewBatch(): a live batch with no staged write.
NewBatch == [live |-> TRUE, ops |-> <<>>]

\* No batch exists (no Accepted call has run).
NoBatch == [live |-> FALSE, ops |-> <<>>]

\* storage.StoreTransaction(ctx, batch, id, t, success, units), when the
\* write succeeds: one Put of the record, keyed by the identifier, staged in
\* the batch.
StoreTransaction(b, id, t, success, units) ==
  [b EXCEPT !.ops = Append(@, [key |-> id, value |-> TxRecord(t, success, units)])]

\* The store after the staged writes ops were applied to db, in order.
RECURSIVE ApplyOps(_, _)
ApplyOps(db, ops) ==
  IF ops = <<>> THEN db
  ELSE ApplyOps(Put(db, Head(ops).key, Head(ops).value), Tail(ops))

\* Mutant of BatchWrite: the commit replaces the content of the store.
BatchWriteReplace(db, b) == ApplyOps(EmptyDB, b.ops)

\* batch.Write(), when the commit succeeds.
BatchWrite(db, b) == ApplyOps(db, b.ops)

\* batch.Reset(): the staged writes are dropped and the batch is released.
BatchReset(b) == [live |-> FALSE, ops |-> <<>>]

\* ----------------------------------------------------------------- metrics

\* c.metrics before newMetrics: no counter exists.
NoMetrics == [k \in {} |-> 0]

\* newMetrics(gatherer): one counter per action kind, at zero.
NewMetrics == [k \in Kinds |-> 0]

\* Mutant of ActionSwitch: the MintAsset case increments the burnAsset counter.
ActionSwitchMintAsBurn(m, action) ==
  CASE action = "CreateAsset" -> [m EXCEPT !["CreateAsset"] = @ + 1]
    [] action = "MintAsset" -> [m EXCEPT !["BurnAsset"] = @ + 1]
    [] action = "BurnAsset" -> [m EXCEPT !["BurnAsset"] = @ + 1]
    [] action = "ModifyAsset" -> [m EXCEPT !["ModifyAsset"] = @ + 1]
    [] action = "Transfer" -> [m EXCEPT !["Transfer"] = @ + 1]
    [] action = "SequencerMsg" -> [m EXCEPT !["SequencerMsg"] = @ + 1]
    [] action = "ImportAsset" -> [m EXCEPT !["ImportAsset"] = @ + 1]
    [] action = "ExportAsset" -> [m EXCEPT !["ExportAsset"] = @ + 1]
    [] OTHER -> m

\* The switch on tx.Action of Accepted (lines 198-215): the counter of the
\* action's type is incremented; a type without a case changes nothing.
ActionSwitch(m, action) ==
  CASE action = "CreateAsset" -> [m EXCEPT !["CreateAsset"] = @ + 1]
    [] action = "MintAsset" -> [m EXCEPT !["MintAsset"] = @ + 1]
    [] action = "BurnAsset" -> [m EXCEPT !["BurnAsset"] = @ + 1]
    [] action = "ModifyAsset" -> [m EXCEPT !["ModifyAsset"] = @ + 1]
    [] action = "Transfer" -> [m EXCEPT !["Transfer"] = @ + 1]
    [] action = "SequencerMsg" -> [m EXCEPT !["SequencerMsg"] = @ + 1]
    [] action = "ImportAsset" -> [m EXCEPT !["ImportAsset"] = @ + 1]
    [] action = "ExportAsset" -> [m EXCEPT !["ExportAsset"] = @ + 1]
    [] OTHER -> m

\* Mutant of Count: the result's success flag is not looked at.
CountAlways(m, action, result) == ActionSwitch(m, action)

\* Lines 197-216: the counters after the transaction with this action and
\* result was stored.
Count(m, action, result) == IF result.Success THEN ActionSwitch(m, action) ELSE m

\* ------------------------------------------------------------------- state

VARIABLES
  phase,     \* "new" before Initialize, then "ready" or "failed"
  config,    \* c.config
  build,     \* the builder Initialize returned
  gossip,    \* the gossiper Initialize returned
  opened,    \* the stores that are open, each with the directory it was opened at
  handed,    \* the stores whose handle Initialize returned to the host
  returned,  \* the return values of Initialize that were not nil
  metaDB,    \* content of c.metaDB
  blockDB,   \* content of the block store
  stateDB,   \* content of the state store
  metrics,   \* c.metrics: counter value per action kind
  batch,     \* the batch of the running Accepted call
  pc,        \* position of the running Accepted call, "idle" between calls
  blk,       \* the block of the running Accepted call
  i,         \* loop index of the running Accepted call (1-based)
  ret,       \* error the last call returned ("nil": none, or still running)
  lastCall,  \* the operation that ran last
  nCalls,    \* number of Accepted calls so far
  hostPuts,  \* number of writes of the host so far
  nBatches,  \* history: number of NewBatch calls so far
  nResets,   \* history: number of batch.Reset calls so far
  pre,       \* history: metaDB and metrics when the running Accepted call began
  offered,   \* history: per kind, successful transactions of all blocks given to Accepted
  staged     \* history: per kind, successful transactions whose record was staged

vars ==
  <<phase, config, build, gossip, opened, handed, returned, metaDB, blockDB,
    stateDB, metrics, batch, pc, blk, i, ret, lastCall, nCalls, hostPuts, nBatches, nResets,
    pre, offered, staged>>

initVars == <<phase, config, build, gossip, opened, handed, returned>>
storeVars == <<metaDB, blockDB, stateDB>>
callVars == <<batch, pc, blk, i>>
histVars == <<nBatches, nResets, pre, offered, staged>>

NoPre == [metaDB |-> EmptyDB, metrics |-> NoMetrics]

\* The Controller as New() constructs it: &Controller{}.
Init ==
  /\ phase = "new"
  /\ config = NilConfig
  /\ build = NilStrategy
  /\ gossip = NilStrategy
  /\ opened = NoStores
  /\ handed = {}
  /\ returned = {}
  /\ metaDB = EmptyDB
  /\ blockDB = EmptyDB
  /\ stateDB = EmptyDB
  /\ metrics = NoMetrics
  /\ batch = NoBatch
  /\ pc = "idle"
  /\ blk = NoBlock
  /\ i = 0
  /\ ret = "nil"
  /\ lastCall = "none"
  /\ nCalls = 0
  /\ hostPuts = 0
  /\ nBatches = 0
  /\ nResets = 0
  /\ pre = NoPre
  /\ offered = NewMetrics
  /\ staged = NewMetrics

\* -------------------------------------------------------------- Initialize

\* Mutant of Initialize: an error return hands back the stores opened so far.
InitializeLeaksStores(cfgs) ==
  /\ phase = "new"
  /\ pc = "idle"
  /\ \E cfg \in cfgs, outcome \in InitOutcomes :
    /\ metrics' = IF Passed("metrics", outcome) THEN NewMetrics ELSE NoMetrics
    /\ config' = IF Passed("config", outcome) THEN cfg ELSE NilConfig
    /\ opened' = [s \in {t \in Stores : Passed(OpenStep[t], outcome)} |-> SubDirectory[s]]
    /\ IF outcome = "nil"
         THEN /\ build' = SelectBuilder(cfg)
              /\ gossip' = SelectGossiper(cfg)
              /\ handed' = {"block", "state"}
              /\ returned' = ReturnValues
              /\ phase' = "ready"
         ELSE /\ build' = NilStrategy
              /\ gossip' = NilStrategy
              /\ handed' = {s \in {"block", "state"} : Passed(OpenStep[s], outcome)}
              /\ returned' = {s \o "DB" : s \in {t \in {"block", "state"} : Passed(OpenStep[t], outcome)}}
              /\ phase' = "failed"
    /\ ret' = outcome
    /\ lastCall' = "Initialize"
    /\ UNCHANGED <<storeVars, callVars, nCalls, hostPuts, histVars>>

\* Initialize (lines 53-168) with a configuration of cfgs.  outcome is "nil",
\* or the step whose error made Initialize return early; the steps after it
\* are not executed.
Initialize(cfgs) ==
  /\ phase = "new"
  /\ pc = "idle"
  /\ \E cfg \in cfgs, outcome \in InitOutcomes :
    /\ metrics' = IF Passed("metrics", outcome) THEN NewMetrics ELSE NoMetrics
    /\ config' = IF Passed("config", outcome) THEN cfg ELSE NilConfig
    /\ opened' = [s \in {t \in Stores : Passed(OpenStep[t], outcome)} |-> SubDirectory[s]]
    /\ IF outcome = "nil"
         THEN /\ build' = SelectBuilder(cfg)
              /\ gossip' = SelectGossiper(cfg)
              /\ handed' = {"block", "state"}
              /\ returned' = ReturnValues
              /\ phase' = "ready"
         ELSE /\ build' = NilStrategy
              /\ gossip' = NilStrategy
              /\ handed' = {}
              /\ returned' = {}
              /\ phase' = "failed"
    /\ ret' = outcome
    /\ lastCall' = "Initialize"
    /\ UNCHANGED <<storeVars, callVars, nCalls, hostPuts, histVars>>

\* Initialize of a node that goes on to accept blocks.
InitializeNode == Initialize(NodeConfigs)

\* Initialize with any configuration.
InitializeAny == Initialize(AllConfigs)

\* ---------------------------------------------------------------- Accepted

\* The host still holds its stores open: it delivers blocks and writes to its
\* stores only until it closes them.
HostRunning == handed \subseteq DOMAIN opened

\* Number of positions of block b with a successful result and action kind k.
SuccessfulOf(b, k) ==
  Cardinality({j \in 1..Len(b.Txs) : b.Results[j].Success /\ ActionOf(b.Txs[j]) = k})

\* Mutant of AcceptedBeginOf: a block without transactions returns at once,
\* without a commit.
AcceptedBeginSkipsEmpty(blocks, maxCalls) ==
  /\ phase = "ready"
  /\ pc = "idle"
  /\ HostRunning
  /\ nCalls < maxCalls
  /\ \E b \in blocks :
    /\ batch' = NewBatch
    /\ blk' = b
    /\ i' = 1
    /\ pc' = IF Len(b.Txs) = 0 THEN "defer" ELSE "store"
    /\ lastCall' = "Accepted"
    /\ nCalls' = nCalls + 1
    /\ pre' = [metaDB |-> metaDB, metrics |-> metrics]
    /\ offered' = [k \in Kinds |-> offered[k] + SuccessfulOf(b, k)]
    /\ ret' = "nil"
    /\ nBatches' = nBatches + 1
    /\ UNCHANGED <<initVars, storeVars, metrics, hostPuts, nResets, staged>>

\* Lines 179-183: the host calls Accepted(ctx, b) with a block of `blocks`,
\* at most maxCalls times; the batch is created and its Reset deferred.
AcceptedBeginOf(blocks, maxCalls) ==
  /\ phase = "ready"
  /\ pc = "idle"
  /\ HostRunning
  /\ nCalls < maxCalls
  /\ \E b \in blocks :
    /\ batch' = NewBatch
    /\ blk' = b
    /\ i' = 1
    /\ pc' = IF Len(b.Txs) = 0 THEN "write" ELSE "store"
    /\ lastCall' = "Accepted"
    /\ nCalls' = nCalls + 1
    /\ pre' = [metaDB |-> metaDB, metrics |-> metrics]
    /\ offered' = [k \in Kinds |-> offered[k] + SuccessfulOf(b, k)]
    /\ ret' = "nil"
    /\ nBatches' = nBatches + 1
    /\ UNCHANGED <<initVars, storeVars, metrics, hostPuts, nResets, staged>>

\* Accepted is called with any block, up to MaxCalls times.
AcceptedBegin == AcceptedBeginOf(Blocks, MaxCalls)

\* Accepted is called once, with a block over every action type.
AcceptedBeginDispatch == AcceptedBeginOf(KindBlocks, 1)

\* Mutant of AcceptedStore: only a successful transaction gets a record.
AcceptedStoreSuccessOnly ==
  /\ pc = "store"
  /\ batch' = IF blk.Results[i].Success
                THEN StoreTransaction(batch, blk.Txs[i], blk.Tmstmp,
                                      blk.Results[i].Success, blk.Results[i].Units)
                ELSE batch
  /\ pc' = "count"
  /\ staged' = IF blk.Results[i].Success /\ ActionOf(blk.Txs[i]) \in Kinds
                 THEN [staged EXCEPT ![ActionOf(blk.Txs[i])] = @ + 1]
                 ELSE staged
  /\ UNCHANGED <<initVars, storeVars, metrics, blk, i, ret, lastCall, nCalls,
                 hostPuts, nBatches, nResets, pre, offered>>

\* Mutant of AcceptedStore: the block is walked from its last transaction.
AcceptedStoreReversed ==
  /\ pc = "store"
  /\ LET j == Len(blk.Txs) + 1 - i
     IN batch' = StoreTransaction(batch, blk.Txs[j], blk.Tmstmp,
                                  blk.Results[j].Success, blk.Results[j].Units)
  /\ pc' = "count"
  /\ staged' = IF blk.Results[i].Success /\ ActionOf(blk.Txs[i]) \in Kinds
                 THEN [staged EXCEPT ![ActionOf(blk.Txs[i])] = @ + 1]
                 ELSE staged
  /\ UNCHANGED <<initVars, storeVars, metrics, blk, i, ret, lastCall, nCalls,
                 hostPuts, nBatches, nResets, pre, offered>>

\* Mutant of AcceptedStore: the record is stamped with the number of the
\* Accepted call, not with the timestamp of the block.
AcceptedStoreStampsCall ==
  /\ pc = "store"
  /\ batch' = StoreTransaction(batch, blk.Txs[i], nCalls,
                               blk.Results[i].Success, blk.Results[i].Units)
  /\ pc' = "count"
  /\ staged' = IF blk.Results[i].Success /\ ActionOf(blk.Txs[i]) \in Kinds
                 THEN [staged EXCEPT ![ActionOf(blk.Txs[i])] = @ + 1]
                 ELSE staged
  /\ UNCHANGED <<initVars, storeVars, metrics, blk, i, ret, lastCall, nCalls,
                 hostPuts, nBatches, nResets, pre, offered>>

\* Lines 185-193, StoreTransaction returned nil: the record of transaction i
\* is staged in the batch.
AcceptedStore ==
  /\ pc = "store"
  /\ batch' = StoreTransaction(batch, blk.Txs[i], blk.Tmstmp,
                               blk.Results[i].Success, blk.Results[i].Units)
  /\ pc' = "count"
  /\ staged' = IF blk.Results[i].Success /\ ActionOf(blk.Txs[i]) \in Kinds
                 THEN [staged EXCEPT ![ActionOf(blk.Txs[i])] = @ + 1]
                 ELSE staged
  /\ UNCHANGED <<initVars, storeVars, metrics, blk, i, ret, lastCall, nCalls,
                 hostPuts, nBatches, nResets, pre, offered>>

\* Mutant of AcceptedStoreErr: the error is dropped and the loop goes on.
AcceptedStoreErrContinue ==
  /\ pc = "store"
  /\ pc' = "count"
  /\ UNCHANGED <<initVars, storeVars, metrics, batch, blk, i, ret, lastCall, nCalls,
                 hostPuts, histVars>>

\* Mutant of AcceptedStoreErr: what was staged so far is committed before
\* the error is returned.
AcceptedStoreErrFlush ==
  /\ pc = "store"
  /\ ret' = "StoreTransaction"
  /\ pc' = "defer"
  /\ metaDB' = BatchWrite(metaDB, batch)
  /\ UNCHANGED <<initVars, blockDB, stateDB, metrics, batch, blk, i, lastCall, nCalls,
                 hostPuts, histVars>>

\* Mutant of AcceptedStoreErr: the return does not go through the deferred
\* Reset.
AcceptedStoreErrNoDefer ==
  /\ pc = "store"
  /\ ret' = "StoreTransaction"
  /\ pc' = "idle"
  /\ blk' = NoBlock
  /\ i' = 0
  /\ pre' = NoPre
  /\ UNCHANGED <<initVars, storeVars, metrics, batch, lastCall, nCalls, hostPuts,
                 nBatches, nResets, offered, staged>>

\* Lines 194-196, StoreTransaction returned an error: Accepted returns it.
AcceptedStoreErr ==
  /\ pc = "store"
  /\ ret' = "StoreTransaction"
  /\ pc' = "defer"
  /\ UNCHANGED <<initVars, storeVars, metrics, batch, blk, i, lastCall, nCalls,
                 hostPuts, histVars>>

\* Lines 197-217: the metrics switch for transaction i, then the next
\* iteration.
AcceptedCount ==
  /\ pc = "count"
  /\ metrics' = Count(metrics, ActionOf(blk.Txs[i]), blk.Results[i])
  /\ i' = i + 1
  /\ pc' = IF i + 1 > Len(blk.Txs) THEN "write" ELSE "store"
  /\ UNCHANGED <<initVars, storeVars, batch, blk, ret, lastCall, nCalls,
                 hostPuts, histVars>>

\* Mutant of AcceptedWrite: the batch is committed to the state store.
AcceptedWriteToState ==
  /\ pc = "write"
  /\ stateDB' = BatchWrite(stateDB, batch)
  /\ ret' = "nil"
  /\ pc' = "defer"
  /\ UNCHANGED <<initVars, blockDB, metaDB, metrics, batch, blk, i, lastCall,
                 nCalls, hostPuts, histVars>>

\* Line 218, batch.Write() returned nil: the staged records are committed.
AcceptedWrite ==
  /\ pc = "write"
  /\ metaDB' = BatchWrite(metaDB, batch)
  /\ ret' = "nil"
  /\ pc' = "defer"
  /\ UNCHANGED <<initVars, blockDB, stateDB, metrics, batch, blk, i, lastCall,
                 nCalls, hostPuts, histVars>>

\* Mutant of AcceptedWriteErr: the counters are rolled back with the batch.
AcceptedWriteErrRollback ==
  /\ pc = "write"
  /\ ret' = "Write"
  /\ pc' = "defer"
  /\ metrics' = pre.metrics
  /\ UNCHANGED <<initVars, storeVars, batch, blk, i, lastCall, nCalls,
                 hostPuts, histVars>>

\* Mutant of AcceptedWriteErr: the error of the commit is dropped.
AcceptedWriteErrSwallowed ==
  /\ pc = "write"
  /\ ret' = "nil"
  /\ pc' = "defer"
  /\ UNCHANGED <<initVars, storeVars, metrics, batch, blk, i, lastCall, nCalls,
                 hostPuts, histVars>>

\* Line 218, batch.Write() returned an error: nothing is committed (the
\* store applies a batch as a whole or not at all).
AcceptedWriteErr ==
  /\ pc = "write"
  /\ ret' = "Write"
  /\ pc' = "defer"
  /\ UNCHANGED <<initVars, storeVars, metrics, batch, blk, i, lastCall, nCalls,
                 hostPuts, histVars>>

\* Mutant of AcceptedReturn: a call that fails takes its increments back.
AcceptedReturnRollsBack ==
  /\ pc = "defer"
  /\ batch' = BatchReset(batch)
  /\ pc' = "idle"
  /\ blk' = NoBlock
  /\ i' = 0
  /\ pre' = NoPre
  /\ nResets' = nResets + 1
  /\ metrics' = IF ret = "nil" THEN metrics ELSE pre.metrics
  /\ UNCHANGED <<initVars, storeVars, ret, lastCall, nCalls, hostPuts,
                 nBatches, offered, staged>>

\* Line 181: the deferred batch.Reset() runs, and Accepted returns ret.
AcceptedReturn ==
  /\ pc = "defer"
  /\ batch' = BatchReset(batch)
  /\ pc' = "idle"
  /\ blk' = NoBlock
  /\ i' = 0
  /\ pre' = NoPre
  /\ nResets' = nResets + 1
  /\ UNCHANGED <<initVars, storeVars, metrics, ret, lastCall, nCalls, hostPuts,
                 nBatches, offered, staged>>

\* ------------------------------------------------------ Rejected, Shutdown

\* Mutant of Rejected: the rejection clears the index.
RejectedClears ==
  /\ phase = "ready"
  /\ pc = "idle"
  /\ ret' = "nil"
  /\ lastCall' = "Rejected"
  /\ metaDB' = EmptyDB
  /\ UNCHANGED <<initVars, blockDB, stateDB, metrics, callVars, nCalls, hostPuts, histVars>>

\* Lines 221-223: Rejected(ctx, b) returns nil.  The function does not name
\* its parameters: what it does is the same for every block.
Rejected ==
  /\ phase = "ready"
  /\ pc = "idle"
  /\ ret' = "nil"
  /\ lastCall' = "Rejected"
  /\ UNCHANGED <<initVars, storeVars, metrics, callVars, nCalls, hostPuts, histVars>>

\* Mutant of Shutdown: the stores are closed on the way out.
ShutdownCloses ==
  /\ phase = "ready"
  /\ pc = "idle"
  /\ ret' = "nil"
  /\ lastCall' = "Shutdown"
  /\ opened' = NoStores
  /\ UNCHANGED <<phase, config, build, gossip, handed, returned, storeVars, metrics,
                 callVars, nCalls, hostPuts, histVars>>

\* Lines 225-229: Shutdown(ctx) returns nil.
Shutdown ==
  /\ phase = "ready"
  /\ pc = "idle"
  /\ ret' = "nil"
  /\ lastCall' = "Shutdown"
  /\ UNCHANGED <<initVars, storeVars, metrics, callVars, nCalls, hostPuts, histVars>>

\* Lines 170-173: Rules(t) returns c.genesis.Rules(t).
Rules ==
  /\ phase = "ready"
  /\ pc = "idle"
  /\ lastCall' = "Rules"
  /\ UNCHANGED <<initVars, storeVars, metrics, callVars, ret, nCalls, hostPuts, histVars>>

\* Lines 175-177: StateManager() returns c.stateManager.
StateManager ==
  /\ phase = "ready"
  /\ pc = "idle"
  /\ lastCall' = "StateManager"
  /\ UNCHANGED <<initVars, storeVars, metrics, callVars, ret, nCalls, hostPuts, histVars>>

\* -------------------------------------------------------------------- host

\* The host writes to a store whose handle Initialize returned to it
\* (line 167): the block store or the state store.
HostPut ==
  /\ pc = "idle"
  /\ HostRunning
  /\ hostPuts < MaxHostPuts
  /\ \E s \in handed :
    /\ hostPuts' = hostPuts + 1
    /\ blockDB' = IF s = "block" THEN Put(blockDB, hostPuts + 1, "host") ELSE blockDB
    /\ stateDB' = IF s = "state" THEN Put(stateDB, hostPuts + 1, "host") ELSE stateDB
    /\ lastCall' = "HostPut"
    /\ UNCHANGED <<initVars, metaDB, metrics, callVars, ret, nCalls, histVars>>

\* The host closes the stores whose handle Initialize returned to it
\* (line 167), once Shutdown has returned (comment of line 226).
HostClose ==
  /\ phase = "ready"
  /\ pc = "idle"
  /\ lastCall = "Shutdown"
  /\ HostRunning
  /\ opened' = [s \in DOMAIN opened \ handed |-> opened[s]]
  /\ lastCall' = "HostClose"
  /\ UNCHANGED <<phase, config, build, gossip, handed, returned, storeVars, metrics,
                 callVars, ret, nCalls, hostPuts, histVars>>

\* ------------------------------------------------------------ specifications

Next ==
  \/ InitializeNode
  \/ AcceptedBegin
  \/ AcceptedStore
  \/ AcceptedStoreErr
  \/ AcceptedCount
  \/ AcceptedWrite
  \/ AcceptedWriteErr
  \/ AcceptedReturn
  \/ Rejected
  \/ Shutdown
  \/ Rules
  \/ StateManager
  \/ HostPut
  \/ HostClose

\* The Controller under the host: one Initialize, then blocks.
Spec == Init /\ [][Next]_vars

NextSelect == InitializeAny

\* Initialize alone, over every configuration.
SpecSelect == Init /\ [][NextSelect]_vars

NextDispatch ==
  \/ InitializeNode
  \/ AcceptedBeginDispatch
  \/ AcceptedStore
  \/ AcceptedStoreErr
  \/ AcceptedCount
  \/ AcceptedWrite
  \/ AcceptedWriteErr
  \/ AcceptedReturn

\* One Accepted call, over blocks of every action type.
SpecDispatch == Init /\ [][NextDispatch]_vars

\* ------------------------------------------------------------------ claims

\* Number of positions 1..n of block b with a successful result and action
\* kind k.
SuccessfulPrefix(b, n, k) ==
  Cardinality({j \in 1..n : b.Results[j].Success /\ ActionOf(b.Txs[j]) = k})

\* An Accepted call is running.
InCall == pc # "idle"

\* The step on which the running Accepted call returns.
Returns == pc = "defer" /\ pc' = "idle"

\* C1: Atomicity of Accepted.  While a call runs, up to its commit, the
\* metadata store is what it was when the call began; a call that returns an
\* error (from a record write or from the commit) leaves the store as it was
\* before the call; a call that returns nil leaves a record under the
\* identifier of every transaction of its block.
C1_Atomicity ==
  /\ [](pc \in {"store", "count", "write"} => metaDB = pre.metaDB)
  /\ [][Returns =>
          IF ret = "nil"
            THEN \A j \in 1..Len(blk.Txs) : blk.Txs[j] \in DOMAIN metaDB'
            ELSE metaDB' = pre.metaDB]_vars

\* C1 witness: a call on a store that already holds records fails at the
\* record write of its second transaction, with one record staged.
C1_Witness ==
  /\ pc = "defer"
  /\ ret = "StoreTransaction"
  /\ i = 2
  /\ Len(batch.ops) = 1
  /\ pre.metaDB # EmptyDB
  /\ metaDB = pre.metaDB

\* C2 as stated: between calls, the counter of every kind equals the number
\* of successful transactions of that kind in all blocks given to Accepted.
C2_Original ==
  (phase = "ready" /\ pc = "idle") => \A k \in Kinds : metrics[k] = offered[k]

\* C2, amended: the counter of every kind equals the number of successful
\* transactions of that kind whose record write succeeded, over all Accepted
\* calls (whether the call later failed or not); the transaction whose record
\* write fails and those after it are not counted.  An unsuccessful
\* transaction and one of an unknown kind change no counter.  (The count of
\* the transaction just staged is taken on the next statement.)
C2_CounterConservation ==
  (phase = "ready" /\ pc # "count") => metrics = staged

\* C2 witness: a call has returned the error of a record write, and the
\* Transfer counter counts some, but not all, successful transfers given to
\* Accepted.
C2_Witness ==
  /\ pc = "idle"
  /\ ret = "StoreTransaction"
  /\ metrics["Transfer"] >= 1
  /\ metrics["Transfer"] < offered["Transfer"]

\* The record the batch of block b leaves under identifier id: that of the
\* last position of b carrying id.
LastRecord(b, id) ==
  LET j == CHOOSE n \in 1..Len(b.Txs) :
             /\ b.Txs[n] = id
             /\ \A m \in (n + 1)..Len(b.Txs) : b.Txs[m] # id
  IN TxRecord(b.Tmstmp, b.Results[j].Success, b.Results[j].Units)

\* C3 as stated: a record once committed is never changed or removed.
C3_Original ==
  [][\A id \in DOMAIN metaDB : id \in DOMAIN metaDB' /\ metaDB'[id] = metaDB[id]]_vars

\* C3, amended: the store holds one record per transaction identifier; a
\* committed record is never removed, and it changes only on the successful
\* commit of a later Accepted call whose block carries a transaction with the
\* same identifier, which overwrites it with that block's timestamp and
\* result.  Every transaction of the block committed has its record.
C3_AppendOnly ==
  [][/\ \A id \in DOMAIN metaDB :
          /\ id \in DOMAIN metaDB'
          /\ metaDB'[id] # metaDB[id] =>
               /\ pc = "write" /\ pc' = "defer" /\ ret' = "nil"
               /\ \E j \in 1..Len(blk.Txs) : blk.Txs[j] = id
               /\ metaDB'[id] = LastRecord(blk, id)
     /\ (pc = "write" /\ ret' = "nil" /\ pc' = "defer") =>
          \A j \in 1..Len(blk.Txs) : blk.Txs[j] \in DOMAIN metaDB']_vars

\* C3 witness: a commit has just replaced a record of an earlier block.
C3_Witness ==
  /\ pc = "defer"
  /\ ret = "nil"
  /\ \E id \in DOMAIN pre.metaDB : metaDB[id] # pre.metaDB[id]

\* C4: Rejected, wherever it falls among the Accepted calls, returns nil and
\* changes neither the metadata store, nor the block store, nor the state
\* store, nor a counter.
C4_RejectedNoOp ==
  [][(pc = "idle" /\ lastCall' = "Rejected") =>
       /\ ret' = "nil"
       /\ UNCHANGED <<metaDB, blockDB, stateDB, metrics>>]_vars

\* C4 witness: Rejected has run between two Accepted calls, on an index and
\* counters that are not empty, after a host write.
C4_Witness ==
  /\ lastCall = "Rejected"
  /\ nCalls = 1
  /\ metaDB # EmptyDB
  /\ metrics # NewMetrics
  /\ hostPuts > 0

\* C5: when the record write of transaction i fails, Accepted returns that
\* error at once: the batch holds the records of the transactions before i
\* only, the counters count the transactions before i only, nothing is
\* committed, and the only step left is the return (no retry, no commit).
\* (A step from the record write that stages nothing is a failed write.)
C5_WriteFailureAborts ==
  /\ []((pc = "defer" /\ ret = "StoreTransaction") =>
          /\ i \in 1..Len(blk.Txs)
          /\ Len(batch.ops) = i - 1
          /\ \A n \in 1..Len(batch.ops) : batch.ops[n].key = blk.Txs[n]
          /\ metaDB = pre.metaDB
          /\ \A k \in Kinds :
               metrics[k] = pre.metrics[k] + SuccessfulPrefix(blk, i - 1, k))
  /\ [][(pc = "store" /\ batch' = batch) =>
          /\ ret' = "StoreTransaction"
          /\ pc' = "defer"
          /\ UNCHANGED <<metaDB, metrics, batch, i>>]_vars
  /\ [][(pc = "defer" /\ ret = "StoreTransaction") =>
          /\ pc' = "idle"
          /\ ret' = ret
          /\ UNCHANGED <<metaDB, metrics>>]_vars

\* C5 witness: the record write of the first of two transactions has failed,
\* and the second one is a successful transfer that will not be counted.
C5_Witness ==
  /\ pc = "defer"
  /\ ret = "StoreTransaction"
  /\ i = 1
  /\ Len(blk.Txs) = 2
  /\ blk.Results[2].Success
  /\ ActionOf(blk.Txs[2]) = "Transfer"

\* C6: when every record write succeeds and the commit fails, Accepted
\* returns the commit error, no record of the block is visible, and every
\* counter keeps the value the loop gave it, through the return.
C6_CommitFailureKeepsCounters ==
  /\ []((pc = "defer" /\ ret = "Write") =>
          /\ Len(batch.ops) = Len(blk.Txs)
          /\ metaDB = pre.metaDB
          /\ \A k \in Kinds : metrics[k] = pre.metrics[k] + SuccessfulOf(blk, k))
  /\ [][(pc = "defer" /\ ret = "Write") =>
          /\ pc' = "idle"
          /\ ret' = ret
          /\ UNCHANGED <<metaDB, metrics>>]_vars

\* C6 witness: a call has returned the commit error; the index is empty and
\* the Transfer counter is not.
C6_Witness ==
  /\ pc = "idle"
  /\ ret = "Write"
  /\ lastCall = "Accepted"
  /\ metaDB = EmptyDB
  /\ metrics["Transfer"] >= 1

\* C7: every Accepted call creates one batch and resets it before it
\* returns, on every path: between calls no batch is live and as many
\* batches were reset as were created; during a call its batch is live.
C7_ScopedBatch ==
  /\ nBatches = nCalls
  /\ nResets = IF InCall THEN nCalls - 1 ELSE nCalls
  /\ batch.live = InCall
  /\ ~InCall => batch.ops = <<>>

\* C7 witness: a call that failed at a record write, with a record staged,
\* has returned.
C7_Witness ==
  /\ pc = "idle"
  /\ ret = "StoreTransaction"
  /\ nCalls = MaxCalls
  /\ staged # NewMetrics

\* ------------------------------------------------ claims on the selection

Tunables == ProposerFields \cup {"PreferredBlocksPerSecond"}

\* The default of tunable f.
DefaultOf(f) ==
  IF f = "PreferredBlocksPerSecond"
    THEN DefaultTimeConfig.PreferredBlocksPerSecond
    ELSE DefaultProposerConfig[f]

\* The value of tunable f in the strategies selected (timed builder and
\* proposer gossiper).
Selected(f) ==
  IF f = "PreferredBlocksPerSecond"
    THEN build.cfg.PreferredBlocksPerSecond
    ELSE gossip.cfg[f]

\* Initialize returned the timed builder and the proposer gossiper.
TimedPair == build.kind = "builder.Time" /\ gossip.kind = "gossiper.Proposer"

\* C8: with TestMode set, Initialize selects the manual builder and the
\* manual gossiper whatever the other fields hold; in every case one builder
\* and one gossiper are selected.
C8_TestModeManual ==
  phase = "ready" =>
    /\ build.kind \in {"builder.Manual", "builder.Time"}
    /\ gossip.kind \in {"gossiper.Manual", "gossiper.Proposer"}
    /\ config.TestMode => (build.kind = "builder.Manual" /\ gossip.kind = "gossiper.Manual")

\* C8 witness: test mode with every tunable set to a value of its own.
C8_Witness ==
  /\ phase = "ready"
  /\ config.TestMode
  /\ \A f \in Tunables : config[f] = Override(DefaultOf(f))
  /\ build = NewManualBuilder
  /\ gossip = NewManualGossiper

\* C9 as stated: without test mode, a tunable whose configured value is zero
\* carries its default in the strategies selected.
C9_Original ==
  (phase = "ready" /\ ~config.TestMode) =>
    \A f \in Tunables : config[f] = 0 => Selected(f) = DefaultOf(f)

\* C9, amended: without test mode, Initialize copies every tunable from the
\* configuration object without a fallback of its own: a tunable the object
\* holds as zero is selected as zero, and a tunable is selected at its
\* default exactly when the configuration object holds the default for it
\* (so the pair equals the defaults when config.New left the defaults in
\* every field).
C9_DefaultsFromConfig ==
  (phase = "ready" /\ ~config.TestMode) =>
    /\ TimedPair
    /\ \A f \in Tunables :
         /\ config[f] = 0 => Selected(f) = 0
         /\ Selected(f) = DefaultOf(f) <=> config[f] = DefaultOf(f)

\* C9 witness: a zero GossipMaxSize beside defaults in the other fields.
C9_Witness ==
  /\ phase = "ready"
  /\ ~config.TestMode
  /\ config.GossipMaxSize = 0
  /\ \A f \in Tunables \ {"GossipMaxSize"} : config[f] = DefaultOf(f)
  /\ gossip.cfg.GossipMaxSize = 0
  /\ gossip.cfg.GossipInterval = DefaultProposerConfig.GossipInterval

\* C10: without test mode and with all seven tunables configured, each of
\* them has the configured value in the strategies selected, and none that
\* was configured away from its default holds the default.
C10_OverridesTakeEffect ==
  (phase = "ready" /\ ~config.TestMode /\ \A f \in Tunables : config[f] # 0) =>
    /\ TimedPair
    /\ \A f \in Tunables :
         /\ Selected(f) = config[f]
         /\ config[f] # DefaultOf(f) => Selected(f) # DefaultOf(f)

\* C10 witness: all seven tunables configured away from their defaults.
C10_Witness ==
  /\ phase = "ready"
  /\ ~config.TestMode
  /\ \A f \in Tunables : config[f] = Override(DefaultOf(f))
  /\ \A f \in Tunables : Selected(f) = Override(DefaultOf(f))

\* C11 (Initialize is all-or-nothing): when a step of Initialize has failed,
\* Initialize returned that step's error and nil for every other return
\* value (no store handle, no strategy), and no step after the failed one ran:
\* only the stores opened before it are open, and no strategy was built.
\* When no step failed, every value is returned and the three stores are open.
C11_AllOrNothing ==
  /\ phase = "failed" =>
       /\ ret \in InitOutcomes \ {"nil"}
       /\ returned = {}
       /\ handed = {}
       /\ build = NilStrategy
       /\ gossip = NilStrategy
       /\ \A s \in Stores : s \in DOMAIN opened <=> StepNo(OpenStep[s]) < StepNo(ret)
       /\ StepNo(ret) <= StepNo("config") => config = NilConfig
       /\ ret = "metrics" => metrics = NoMetrics
  /\ phase = "ready" =>
       /\ ret = "nil"
       /\ returned = ReturnValues
       /\ handed = {"block", "state"}
       /\ DOMAIN opened = Stores
       /\ build # NilStrategy
       /\ gossip # NilStrategy

\* Opening the metadata store failed after the block and state stores were
\* opened: nothing was returned.
C11_Witness ==
  /\ phase = "failed"
  /\ ret = "metaDB"
  /\ DOMAIN opened = {"block", "state"}
  /\ handed = {}
  /\ returned = {}

\* C12 (Shutdown touches nothing): every Shutdown call returns no error and
\* leaves the three stores open and their content and the counters as they
\* were; a store is opened by Initialize only and closed by the host only.
C12_ShutdownTouchesNothing ==
  /\ [][(pc = "idle" /\ lastCall' = "Shutdown") =>
          /\ ret' = "nil"
          /\ UNCHANGED <<opened, metaDB, blockDB, stateDB, metrics>>]_vars
  /\ [][opened' # opened => lastCall' \in {"Initialize", "HostClose"}]_vars
  /\ [][lastCall' = "HostClose" => DOMAIN opened' = DOMAIN opened \ handed]_vars

\* Shutdown has returned on a Controller that indexed a block and whose host
\* wrote to its stores: the three stores are open and hold what they held.
C12_Witness ==
  /\ lastCall = "Shutdown"
  /\ ret = "nil"
  /\ DOMAIN opened = Stores
  /\ metaDB # EmptyDB
  /\ blockDB # EmptyDB \/ stateDB # EmptyDB
  /\ \E k \in Kinds : metrics[k] > 0

\* C13 (partition isolation): the open stores sit at pairwise distinct
\* sub-directories, named block, state and metadata; the metadata store
\* changes only at the commit of an Accepted call, which leaves the block and
\* state stores alone; the block and state stores change only by a write of
\* the host, which leaves the metadata store alone, so that they hold nothing
\* but what the host wrote.
C13_PartitionIsolation ==
  /\ [](\A s \in DOMAIN opened :
          /\ opened[s] = s
          /\ \A t \in DOMAIN opened : s # t => opened[s] # opened[t])
  /\ [](Cardinality(DOMAIN blockDB) + Cardinality(DOMAIN stateDB) = hostPuts)
  /\ [][metaDB' # metaDB =>
          /\ pc = "write"
          /\ lastCall = "Accepted"
          /\ UNCHANGED <<blockDB, stateDB>>]_vars
  /\ [][(blockDB' # blockDB \/ stateDB' # stateDB) =>
          /\ pc = "idle"
          /\ lastCall' = "HostPut"
          /\ metaDB' = metaDB]_vars

\* After Accepted, Rejected and Shutdown calls and a write of the host, the
\* records of the block are in the metadata store and the host's entry is in
\* its own store.
C13_Witness ==
  /\ pc = "idle"
  /\ lastCall = "Shutdown"
  /\ nCalls = MaxCalls
  /\ Cardinality(DOMAIN metaDB) >= 2
  /\ hostPuts = 1
  /\ Cardinality(DOMAIN blockDB) + Cardinality(DOMAIN stateDB) = 1
  /\ DOMAIN opened = Stores

\* The block of the worked example: a successful Transfer of 5 units and a
\* failed MintAsset of 0 units, at timestamp t.
ExampleBlock(t) ==
  [Txs |-> <<1, 2>>,
   Results |-> <<[Success |-> TRUE, Units |-> 5], [Success |-> FALSE, Units |-> 0]>>,
   Tmstmp |-> t]

\* C14 (record content): during an Accepted call the n-th staged record is
\* keyed by the identifier of transaction n and holds the timestamp of the
\* block and the success flag and units of result n; a transaction gets its
\* record whether it succeeded or not.  For the block [Transfer(success, 5),
\* MintAsset(failure, 0)] at T a successful call leaves {T, true, 5} and
\* {T, false, 0} in the store, the transfer counter one higher and the
\* mintAsset counter as it was.
C14_RecordContent ==
  /\ InCall =>
       /\ \A n \in 1..Len(batch.ops) :
            /\ n <= Len(blk.Txs)
            /\ batch.ops[n].key = blk.Txs[n]
            /\ batch.ops[n].value.Timestamp = blk.Tmstmp
            /\ batch.ops[n].value.Success = blk.Results[n].Success
            /\ batch.ops[n].value.Units = blk.Results[n].Units
       /\ pc = "count" => Len(batch.ops) = i
       /\ pc = "write" => Len(batch.ops) = Len(blk.Txs)
  /\ \A t \in 1..MaxTs :
       (pc = "defer" /\ ret = "nil" /\ blk = ExampleBlock(t)) =>
         /\ {1, 2} \subseteq DOMAIN metaDB
         /\ metaDB[1] = [Timestamp |-> t, Success |-> TRUE, Units |-> 5]
         /\ metaDB[2] = [Timestamp |-> t, Success |-> FALSE, Units |-> 0]
         /\ metrics["Transfer"] = pre.metrics["Transfer"] + 1
         /\ metrics["MintAsset"] = pre.metrics["MintAsset"]

\* The worked example was accepted at timestamp 2: both records are
\* committed, the failed transaction's too.
C14_Witness ==
  /\ pc = "defer"
  /\ ret = "nil"
  /\ blk = ExampleBlock(2)
  /\ metaDB[2] = [Timestamp |-> 2, Success |-> FALSE, Units |-> 0]
  /\ metrics["Transfer"] = pre.metrics["Transfer"] + 1

\* C15 (per-transaction dispatch): the metrics step of transaction i
\* increments exactly the counter of the transaction's kind, by one, when the
\* result is successful and the kind is one of the eight known kinds, and no
\* counter otherwise; no other step of a call changes a counter.  A
\* transaction of an unknown kind is no error: its record is staged and the
\* call goes on to the next transaction or to the commit.
C15_Dispatch ==
  /\ [][(pc = "count" /\ pc' # "count") =>
          LET a == ActionOf(blk.Txs[i])
              r == blk.Results[i]
          IN /\ (r.Success /\ a \in Kinds) =>
                  /\ metrics'[a] = metrics[a] + 1
                  /\ \A k \in Kinds \ {a} : metrics'[k] = metrics[k]
             /\ ~(r.Success /\ a \in Kinds) => metrics' = metrics
             /\ Len(batch.ops) = i
             /\ batch.ops[i].key = blk.Txs[i]
             /\ ret' = "nil"
             /\ i' = i + 1
             /\ pc' = IF i = Len(blk.Txs) THEN "write" ELSE "store"]_vars
  /\ [][(phase = "ready" /\ pc # "count") => metrics' = metrics]_vars

\* A successful transaction of an unknown kind and a successful sequencer
\* message were processed: both have their record staged, and the only
\* counter that moved is sequencerMsg.
C15_Witness ==
  /\ pc = "write"
  /\ Len(blk.Txs) = 2
  /\ ActionOf(blk.Txs[1]) = "Other"
  /\ blk.Results[1].Success
  /\ ActionOf(blk.Txs[2]) = "SequencerMsg"
  /\ blk.Results[2].Success
  /\ Len(batch.ops) = 2
  /\ metrics = [NewMetrics EXCEPT !["SequencerMsg"] = 1]

\* C16 (counters are monotone and move only in Accepted): the eight
\* counters are created, at zero, by Initialize and by nothing else; after
\* that no step makes any counter smaller, and the only step that changes a
\* counter is the metrics step of an Accepted call: no step of Rejected,
\* Shutdown, Rules or StateManager and no error path of Accepted does.
C16_CountersMonotone ==
  /\ [](phase = "ready" => DOMAIN metrics = Kinds)
  /\ [][phase = "ready" => \A k \in Kinds : metrics'[k] >= metrics[k]]_vars
  /\ [][metrics' # metrics =>
          \/ phase = "new" /\ lastCall' = "Initialize" /\ metrics' = NewMetrics
          \/ pc = "count" /\ lastCall = "Accepted" /\ ret' = "nil"]_vars
  /\ [][(pc = "idle" /\ lastCall' \in {"Rejected", "Shutdown", "Rules", "StateManager"})
          => metrics' = metrics]_vars
  /\ [][(InCall /\ ret' # "nil") => metrics' = metrics]_vars

\* A second Accepted call failed at a record write after its first
\* transaction was counted: the transfer counter kept both increments.
C16_Witness ==
  /\ pc = "idle"
  /\ lastCall = "Accepted"
  /\ ret = "StoreTransaction"
  /\ nCalls = 2
  /\ metrics["Transfer"] = 2

\* C17 (in-block ordering): the records are staged in block order, one per
\* position, equal identifiers included; when the record of transaction i is
\* about to be staged, exactly the transactions before i have their record
\* and their increment; when the increment of transaction i is due, its
\* record is staged and no later transaction has been touched; the commit is
\* one step, taken after the last transaction's metrics step, and nothing
\* reaches the store before it.  Every call processes the block it was given.
C17_InBlockOrder ==
  /\ [](InCall =>
         /\ Len(batch.ops) <= Len(blk.Txs)
         /\ \A n \in 1..Len(batch.ops) : batch.ops[n].key = blk.Txs[n])
  /\ [](pc = "store" =>
         /\ i \in 1..Len(blk.Txs)
         /\ Len(batch.ops) = i - 1
         /\ \A k \in Kinds : metrics[k] = pre.metrics[k] + SuccessfulPrefix(blk, i - 1, k)
         /\ metaDB = pre.metaDB)
  /\ [](pc = "count" =>
         /\ i \in 1..Len(blk.Txs)
         /\ Len(batch.ops) = i
         /\ \A k \in Kinds : metrics[k] = pre.metrics[k] + SuccessfulPrefix(blk, i - 1, k)
         /\ metaDB = pre.metaDB)
  /\ [](pc = "write" =>
         /\ i = Len(blk.Txs) + 1
         /\ Len(batch.ops) = Len(blk.Txs)
         /\ \A k \in Kinds : metrics[k] = pre.metrics[k] + SuccessfulOf(blk, k)
         /\ metaDB = pre.metaDB)
  /\ [][metaDB' # metaDB => pc = "write" /\ pc' = "defer"]_vars
  /\ [][pc = "defer" => pc' \in {"defer", "idle"} /\ metaDB' = metaDB]_vars
  /\ [][(pc = "idle" /\ pc' # "idle") =>
          /\ blk' \in Blocks
          /\ nCalls' = nCalls + 1
          /\ batch' = NewBatch]_vars

\* A block carrying the same successful transfer twice, in a second call:
\* both records are staged, in order, and only the first is counted yet.
C17_Witness ==
  /\ pc = "count"
  /\ nCalls = 2
  /\ i = 2
  /\ blk.Txs = <<1, 1>>
  /\ blk.Results[1].Success /\ blk.Results[2].Success
  /\ blk.Results[1].Units # blk.Results[2].Units
  /\ Len(batch.ops) = 2
  /\ batch.ops[1].value.Units = blk.Results[1].Units
  /\ metrics["Transfer"] = pre.metrics["Transfer"] + 1
  /\ metaDB = pre.metaDB

\* C18 as stated: a call on a block without transactions stages nothing,
\* leaves the store and the counters as they were, and ends without error.
C18_Original ==
  (pc = "defer" /\ Len(blk.Txs) = 0) =>
    /\ batch.ops = <<>>
    /\ metaDB = pre.metaDB
    /\ metrics = pre.metrics
    /\ ret = "nil"

\* C18, amended (empty block): a call on a block without transactions goes
\* straight to the commit of its empty batch; it stages no record and leaves
\* the metadata store and every counter as they were, during the call and
\* after it; no record write can fail, so the call returns what the commit
\* returns: no error, or the commit's error.
C18_EmptyBlock ==
  /\ []((InCall /\ Len(blk.Txs) = 0) =>
         /\ pc \in {"write", "defer"}
         /\ batch.ops = <<>>
         /\ metaDB = pre.metaDB
         /\ metrics = pre.metrics
         /\ ret \in {"nil", "Write"})
  /\ [][(pc = "idle" /\ pc' # "idle" /\ Len(blk'.Txs) = 0) => pc' = "write"]_vars
  /\ [][(pc = "write" /\ pc' # "write" /\ Len(blk.Txs) = 0) =>
          /\ pc' = "defer"
          /\ UNCHANGED <<metaDB, metrics>>]_vars
  /\ [][(Returns /\ Len(blk.Txs) = 0) => UNCHANGED <<metaDB, metrics, ret>>]_vars

\* An empty block was committed without error on a Controller that already
\* holds records and counts.
C18_Witness ==
  /\ pc = "defer"
  /\ Len(blk.Txs) = 0
  /\ ret = "nil"
  /\ batch.ops = <<>>
  /\ pre.metaDB # EmptyDB
  /\ metaDB = pre.metaDB
  /\ metrics = pre.metrics
  /\ \E k \in Kinds : metrics[k] > 0

\* Store db is as a successful acceptance of block b leaves it: under the
\* identifier of every transaction of b it holds the record b writes there.
AcceptedIn(b, db) ==
  \A j \in 1..Len(b.Txs) :
    /\ b.Txs[j] \in DOMAIN db
    /\ db[b.Txs[j]] = LastRecord(b, b.Txs[j])

\* Number of transactions of the running call that reached their metrics
\* step, once the call is about to return.
Reached == IF ret = "StoreTransaction" THEN i - 1 ELSE Len(blk.Txs)

\* C19 (re-acceptance is idempotent on the store): a successful call leaves
\* the store as an acceptance of its block leaves it, whatever failed
\* attempts came before, and touches no other record; a call on a block that
\* the store already holds as accepted leaves the store equal to what it
\* was, whether it succeeds or fails.  The counters are not idempotent: each
\* call adds one per successful known-kind transaction it reached.
C19_Reacceptance ==
  /\ (pc = "defer" /\ ret = "nil") =>
       /\ AcceptedIn(blk, metaDB)
       /\ \A id \in DOMAIN pre.metaDB :
            (\A j \in 1..Len(blk.Txs) : blk.Txs[j] # id) =>
              id \in DOMAIN metaDB /\ metaDB[id] = pre.metaDB[id]
  /\ (pc = "defer" /\ AcceptedIn(blk, pre.metaDB)) => metaDB = pre.metaDB
  /\ pc = "defer" =>
       \A k \in Kinds : metrics[k] = pre.metrics[k] + SuccessfulPrefix(blk, Reached, k)

\* A block of two successful transfer-kind and mint-kind transactions was
\* accepted a second time, on a store holding exactly its two records: the
\* store is the same, the transfer counter went from 1 to 2.
C19_Witness ==
  /\ pc = "defer"
  /\ ret = "nil"
  /\ nCalls = 2
  /\ blk.Txs = <<1, 2>>
  /\ blk.Results[1].Success
  /\ DOMAIN pre.metaDB = {1, 2}
  /\ AcceptedIn(blk, pre.metaDB)
  /\ metaDB = pre.metaDB
  /\ pre.metrics["Transfer"] = 1
  /\ metrics["Transfer"] = 2

\* The step on which the result of the running Accepted call is decided.
Decides == pc \in {"store", "write"} /\ pc' = "defer"

\* The result of an Accepted call follows its writes: an error exactly when
\* a record write staged nothing or the commit applied nothing, and no error
\* exactly when every record was staged and the commit applied them; the
\* call returns the result so decided.
ResultFollowsWrites ==
  /\ [][Decides =>
          \/ /\ pc = "store"
             /\ batch' = batch
             /\ metaDB' = metaDB
             /\ ret' = "StoreTransaction"
          \/ /\ pc = "write"
             /\ Len(batch.ops) = Len(blk.Txs)
             /\ metaDB' = metaDB
             /\ ret' = "Write"
          \/ /\ pc = "write"
             /\ Len(batch.ops) = Len(blk.Txs)
             /\ metaDB' = ApplyOps(metaDB, batch.ops)
             /\ ret' = "nil"]_vars
  /\ [][(pc' = "defer" /\ pc # "defer") => Decides]_vars
  /\ [][Returns => ret' = ret /\ metaDB' = metaDB]_vars
  /\ [](InCall /\ pc # "defer" => ret = "nil")

\* C20 as stated: the result follows the writes; a call that reported
\* success left a record under every identifier of its block, and a call
\* that reported failure left no record of its block visible.
C20_Original ==
  /\ ResultFollowsWrites
  /\ [][Returns =>
          IF ret' = "nil"
            THEN AcceptedIn(blk, metaDB')
            ELSE \A j \in 1..Len(blk.Txs) : blk.Txs[j] \notin DOMAIN metaDB']_vars

\* C20, amended (the result tracks durability): the result follows the
\* writes; a call that reported success left under every identifier of its
\* block the record of that block; a call that reported failure left the
\* store exactly as it was before the call, so that a record of its block is
\* visible only where the store already held one under that identifier.
C20_ResultTracksDurability ==
  /\ ResultFollowsWrites
  /\ [][Returns =>
          IF ret' = "nil"
            THEN AcceptedIn(blk, metaDB')
            ELSE /\ metaDB' = pre.metaDB
                 /\ \A j \in 1..Len(blk.Txs) :
                      blk.Txs[j] \in DOMAIN metaDB' => blk.Txs[j] \in DOMAIN pre.metaDB]_vars

\* The commit of a second call failed on a block whose records an earlier
\* call committed: the call is about to report failure, and the records
\* are visible.
C20_Witness ==
  /\ pc = "defer"
  /\ ret = "Write"
  /\ nCalls = 2
  /\ Len(blk.Txs) = 2
  /\ AcceptedIn(blk, metaDB)
  /\ metaDB = pre.metaDB

====
